---- MODULE Spec2Model ----
(***************************************************************************)
(* AppController of js/shared-utils.js: the wrapper that coordinates the   *)
(* iTiles BLE manager and the Kiwrious WebSerial service.                  *)
(*                                                                         *)
(* One action is one run-to-completion segment of JavaScript: the code     *)
(* between two suspension points (await, timer, SDK callback).  The two    *)
(* SDKs are external: which awaited call resolves or rejects, and which    *)
(* notification arrives when, is the environment's choice.                 *)
(*                                                                         *)
(* `out' is the trace of the last segment: the event that started it       *)
(* followed, in program order, by every observable effect it had (log      *)
(* entries per subscriber and on the console, SDK calls, status refreshes, *)
(* the value returned or the error thrown to the caller).                  *)
(***************************************************************************)
EXTENDS Integers, Sequences, FiniteSets, TLC

VARIABLES
    kiwriousConnected,  \* this.kiwriousConnected
    itilesConnected,    \* this.itilesConnected
    iTilesManager,      \* this.iTilesManager: 0 is null, m > 0 the m-th manager built
    serialService,      \* this.serialService: FALSE is null, TRUE the module's service
    logCallbacks,       \* this.logCallbacks
    sdkGlobals,         \* window.SELECT_ITILE, window.GAME_STATUS, ... are set
    kiwriousDot,        \* DOM element 'kiwriousStatus'
    itilesDot,          \* DOM element 'itilesStatus'
    tilePc,             \* connectITiles(): where the invocation is suspended
    sensorPc,           \* connectKiwrious(): where the invocation is suspended
    pairPc,             \* pairChildTiles(): where the invocation is suspended
    pairI,              \* pairChildTiles(): the loop variable i
    countdown,          \* pairChildTiles(): the local countdown
    intervalActive,     \* pairChildTiles(): countdownInterval is set and not cleared
    ticks,              \* times the countdown interval has fired in this wait
    elapsed,            \* ms since the wait's timers were set (due time of the last timer fired)
    pairCmds,           \* device commands issued by the current/last pairChildTiles()
    pairResolved,       \* how many of them have resolved
    discPc,             \* disconnect(): where the invocation is suspended
    discTarget,         \* disconnect(): the manager whose disconnect() is awaited
    tileSessions,       \* managers whose connect() resolved and disconnect() did not since
    lastTileCb,         \* value of the last state-2/state-0 notification ("none" before any)
    lastSerialCb,       \* value of the last onSerialConnection callback ("none" before any)
    currentSensorData,  \* this.currentSensorData: 0 is null, d > 0 the d-th kind of reading
    onSensorDataCallback, \* this.onSensorDataCallback: 0 is undefined, else the subscriber
    helperCall,         \* the last call of a value-mapping helper: its name and arguments
    helperResult,       \* what that call returned, or the error it threw
    out                 \* trace of the last run-to-completion segment

ctrlVars == <<kiwriousConnected, itilesConnected, iTilesManager, serialService>>
domVars == <<kiwriousDot, itilesDot>>
pairVars == <<pairPc, pairI, countdown, intervalActive, ticks, elapsed, pairCmds,
              pairResolved>>
discVars == <<discPc, discTarget>>
cbVars == <<lastTileCb, lastSerialCb>>
dataVars == <<currentSensorData, onSensorDataCallback>>
helperVars == <<helperCall, helperResult>>

vars == <<kiwriousConnected, itilesConnected, iTilesManager, serialService,
          logCallbacks, sdkGlobals, kiwriousDot, itilesDot, tilePc, sensorPc,
          pairPc, pairI, countdown, intervalActive, ticks, elapsed, pairCmds,
          pairResolved, discPc, discTarget, tileSessions, lastTileCb, lastSerialCb,
          currentSensorData, onSensorDataCallback, helperCall, helperResult, out>>

----------------------------------------------------------------------------
(* Bounds of the model.                                                    *)

\* managers one controller builds (connectITiles builds a new one per call)
MaxManagers == 2

\* subscribers registered with onLog
MaxCallbacks == 2

\* identities of the callbacks page code may register
Callbacks == 1..MaxCallbacks

\* error messages an SDK promise may reject with
SdkErrors == {"GATT operation failed", "User cancelled"}

\* state codes the tile manager may report (CONNECTION_STATE of the SDK)
StateCodes == 0..3

\* arguments of a log(message, type) call made by page code
Messages == {"hello", "world"}
Types == {"info", "success", "warning", "error"}

\* kinds of decoded reading the sensor service may deliver
MaxReadings == 2
Readings == 1..MaxReadings

\* arguments page code may pass to the value-mapping helpers
MaxTemp == 32
Temps == (0 - MaxTemp)..MaxTemp
MaxUv == 13
UVs == (0 - MaxUv)..MaxUv
MaxValue == 3
Values == (0 - MaxValue)..MaxValue
MaxChannel == 1

----------------------------------------------------------------------------
(* Program constants.                                                      *)

WaitMs == 20000
TickMs == 1000
CountdownStart == 20
FirstTile == 1
\* the loop written with i < 6
LastTile_exclusive == 6 - 1
LastTile == 6
\* the listener testing for the code of CONNECTING
CONNECTED_connecting == 2 - 1
CONNECTED == 2
DISCONNECTED == 0

----------------------------------------------------------------------------
(* Events of a segment's trace.  k: kind; a: name or message text;         *)
(* d: detail (error message, command argument); n: number (countdown,      *)
(* tile index, manager); t: log type; to: subscriber.                      *)

Ev(k, a, d, n, t, to) == [k |-> k, a |-> a, d |-> d, n |-> n, t |-> t, to |-> to]

Invoke(op) == Ev("invoke", op, "", 0, "", 0)
Resolved(call) == Ev("resolved", call, "", 0, "", 0)
Rejected(call, e) == Ev("rejected", call, e, 0, "", 0)
Timer(ms) == Ev("timer", "timeout", "", ms, "", 0)
Notify(name, m, n) == Ev("notify", name, "", n, "", m)
Call(name, arg, n, m) == Ev("call", name, arg, n, "", m)
Return(op, v) == Ev("return", op, v, 0, "", 0)
Throw(op, e) == Ev("throw", op, e, 0, "", 0)
StatusUpdate == Ev("updateConnectionStatus", "", "", 0, "", 0)

----------------------------------------------------------------------------
(* log(message, type), lines 16-23: one entry, handed to every subscriber  *)
(* in the order of logCallbacks, then written to the console.  A message   *)
(* built from a template carries its interpolated part in d or n.          *)

\* log iterating the subscribers from the last registered to the first
log_reversed(message, d, n, type) ==
    [i \in 1..Len(logCallbacks) |->
        Ev("callback", message, d, n, type, logCallbacks[Len(logCallbacks) + 1 - i])]
    \o <<Ev("console", message, d, n, type, 0)>>

log(message, d, n, type) ==
    [i \in 1..Len(logCallbacks) |->
        Ev("callback", message, d, n, type, logCallbacks[i])]
    \o <<Ev("console", message, d, n, type, 0)>>

(* updateConnectionStatus(), lines 194-205: each element that exists gets  *)
(* the class of its flag.                                                  *)

NoElement == [exists |-> FALSE, className |-> ""]
Element(c) == [exists |-> TRUE, className |-> c]

DotClass(connected) == IF connected THEN "status-dot connected" ELSE "status-dot"

SetDot(dot, connected) ==
    IF dot.exists THEN [dot EXCEPT !.className = DotClass(connected)] ELSE dot

\* updateConnectionStatus returning early unless both elements exist
updateConnectionStatus_bothOrNothing ==
    IF kiwriousDot.exists /\ itilesDot.exists
    THEN /\ kiwriousDot' = SetDot(kiwriousDot, kiwriousConnected')
         /\ itilesDot' = SetDot(itilesDot, itilesConnected')
    ELSE UNCHANGED domVars

updateConnectionStatus ==
    /\ kiwriousDot' = SetDot(kiwriousDot, kiwriousConnected')
    /\ itilesDot' = SetDot(itilesDot, itilesConnected')

----------------------------------------------------------------------------
(* The value-mapping helpers, lines 208-236.  A helper's result is a       *)
(* TileColor, a number (kept as the exact fraction num/den), NaN, or the   *)
(* error the call threw.                                                   *)

Result(kind, r, g, b, num, den) ==
    [kind |-> kind, r |-> r, g |-> g, b |-> b, num |-> num, den |-> den]

Undefined == Result("undefined", 0, 0, 0, 0, 1)
Number(num, den) == Result("number", 0, 0, 0, num, den)
NaN == Result("NaN", 0, 0, 0, 0, 1)
PosInfinity == Result("Infinity", 0, 0, 0, 0, 1)
NegInfinity == Result("-Infinity", 0, 0, 0, 0, 1)
ReferenceError == Result("ReferenceError: TileColor is not defined", 0, 0, 0, 0, 1)

\* an object with the channels r, g, b, as page code passes to interpolateColor
Color(r, g, b) == Result("TileColor", r, g, b, 0, 1)

\* interpolation factors 0, 0.5 and 1, as fractions
Factors == {[num |-> 0, den |-> 1], [num |-> 1, den |-> 2], [num |-> 1, den |-> 1]}

\* a call of a helper: its name, its numeric arguments, its colour arguments
HelperCall(fn, args, color1, color2, factor) ==
    [fn |-> fn, args |-> args, color1 |-> color1, color2 |-> color2, factor |-> factor]

NoCall == HelperCall("", <<>>, Undefined, Undefined, [num |-> 0, den |-> 1])

(* new TileColor(r, g, b): TileColor is the global that connectITiles      *)
(* stores at line 41; the class has no binding of that name of its own.    *)

TileColor(r, g, b) == IF sdkGlobals THEN Color(r, g, b) ELSE ReferenceError

tempToColor(temp) ==
    IF temp < 15 THEN TileColor(0, 0, 153)
    ELSE IF temp < 20 THEN TileColor(0, 153, 153)
    ELSE IF temp < 25 THEN TileColor(153, 153, 0)
    ELSE IF temp < 30 THEN TileColor(153, 77, 0)
    ELSE TileColor(153, 0, 0)

uvToColor(uv) ==
    IF uv < 3 THEN TileColor(153, 153, 153)
    ELSE IF uv < 6 THEN TileColor(153, 153, 0)
    ELSE IF uv < 8 THEN TileColor(153, 77, 0)
    ELSE IF uv < 11 THEN TileColor(153, 0, 0)
    ELSE TileColor(153, 0, 153)

RECURSIVE Gcd(_, _)
Gcd(a, b) == IF b = 0 THEN a ELSE Gcd(b, a % b)

Abs(x) == IF x < 0 THEN 0 - x ELSE x

\* the fraction n/d, d # 0, in lowest terms with a positive denominator
Fraction(n, d) ==
    LET g == Gcd(Abs(n), Abs(d))
        sign == IF d < 0 THEN 0 - 1 ELSE 1
    IN  Number(sign * (n \div g), sign * (d \div g))

(* Math.max(0, Math.min(100, x)) of a finite x = num/den, and of the       *)
(* values a division by zero produces: +Infinity is cut to 100, -Infinity  *)
(* to 0, and NaN passes through both Math.min and Math.max.                *)

Clamp(x) ==
    IF x.kind = "NaN" THEN NaN
    ELSE IF x.kind = "Infinity" THEN Number(100, 1)
    ELSE IF x.kind = "-Infinity" THEN Number(0, 1)
    ELSE IF x.num < 0 THEN Number(0, 1)
    ELSE IF x.num > 100 * x.den THEN Number(100, 1)
    ELSE x

(* ((value - min) / (max - min)) * 100.  With max = min the division is by *)
(* zero: 0/0 is NaN, a positive numerator gives +Infinity and a negative   *)
(* one -Infinity, and so does either times 100.                            *)

Scaled(value, min, max) ==
    IF max - min = 0
    THEN IF value - min = 0 THEN NaN
         ELSE IF value - min > 0 THEN PosInfinity
         ELSE NegInfinity
    ELSE Fraction((value - min) * 100, max - min)

normalizeValue(value, min, max) == Clamp(Scaled(value, min, max))

(* Math.round(num/den), den > 0: the nearest integer, a half rounded up.   *)

Round(num, den) == (2 * num + den) \div (2 * den)

\* color1.c + factor * (color2.c - color1.c), rounded
Channel(c1, c2, factor) ==
    Round(c1 * factor.den + factor.num * (c2 - c1), factor.den)

interpolateColor(color1, color2, factor) ==
    LET r == Channel(color1.r, color2.r, factor)
        g == Channel(color1.g, color2.g, factor)
        b == Channel(color1.b, color2.b, factor)
    IN  TileColor(r, g, b)

----------------------------------------------------------------------------
(* constructor, lines 6-13.  The page may or may not hold the two status   *)
(* elements.                                                               *)

Init ==
    /\ kiwriousConnected = FALSE
    /\ itilesConnected = FALSE
    /\ iTilesManager = 0
    /\ serialService = FALSE
    /\ logCallbacks = <<>>
    /\ sdkGlobals = FALSE
    /\ kiwriousDot \in {NoElement, Element("status-dot")}
    /\ itilesDot \in {NoElement, Element("status-dot")}
    /\ tilePc = "idle"
    /\ sensorPc = "idle"
    /\ pairPc = "idle"
    /\ pairI = 0
    /\ countdown = 0
    /\ intervalActive = FALSE
    /\ ticks = 0
    /\ elapsed = 0
    /\ pairCmds = <<>>
    /\ pairResolved = 0
    /\ discPc = "idle"
    /\ discTarget = 0
    /\ tileSessions = {}
    /\ lastTileCb = "none"
    /\ lastSerialCb = "none"
    /\ currentSensorData = 0
    /\ onSensorDataCallback = 0
    /\ helperCall = NoCall
    /\ helperResult = Undefined
    /\ out = <<>>

----------------------------------------------------------------------------
(* onLog(callback), lines 25-27, and a log call made by page code.         *)

onLog(callback) ==
    /\ Len(logCallbacks) < MaxCallbacks
    /\ logCallbacks' = Append(logCallbacks, callback)
    /\ out' = <<Invoke("onLog")>>
    /\ UNCHANGED <<ctrlVars, dataVars, helperVars, sdkGlobals, domVars, tilePc,
                   sensorPc, pairVars, discVars, tileSessions, cbVars>>

logCall(message, type) ==
    /\ out' = <<Ev("invoke", "log", message, 0, type, 0)>> \o log(message, "", 0, type)
    /\ UNCHANGED <<ctrlVars, logCallbacks, dataVars, helperVars,
                   sdkGlobals, domVars, tilePc, sensorPc,
                   pairVars, discVars, tileSessions, cbVars>>

----------------------------------------------------------------------------
(* The listener connectITiles registers on each manager it builds, lines   *)
(* 55-65.  Every manager built so far holds one: none is ever removed.     *)

onConnectionStateChanged(m, state) ==
    /\ m \in 1..iTilesManager
    /\ IF state = CONNECTED
       THEN /\ itilesConnected' = TRUE
            /\ lastTileCb' = "true"
            /\ out' = <<Notify("onConnectionStateChanged", m, state)>>
                      \o log("iTiles connected!", "", 0, "success")
                      \o <<StatusUpdate>>
            /\ UNCHANGED kiwriousConnected
            /\ updateConnectionStatus
       ELSE IF state = DISCONNECTED
       THEN /\ itilesConnected' = FALSE
            /\ lastTileCb' = "false"
            /\ out' = <<Notify("onConnectionStateChanged", m, state)>>
                      \o log("iTiles disconnected", "", 0, "warning")
                      \o <<StatusUpdate>>
            /\ UNCHANGED kiwriousConnected
            /\ updateConnectionStatus
       ELSE /\ out' = <<Notify("onConnectionStateChanged", m, state)>>
            /\ UNCHANGED <<kiwriousConnected, itilesConnected, lastTileCb, domVars>>
    /\ UNCHANGED <<iTilesManager, serialService, logCallbacks, dataVars, helperVars,
                   sdkGlobals, tilePc,
                   sensorPc, pairVars, discVars, tileSessions, lastSerialCb>>

(* The hook connectKiwrious installs on the service, lines 91-99.          *)

onSerialConnection(connected) ==
    /\ serialService
    /\ kiwriousConnected' = connected
    /\ lastSerialCb' = IF connected THEN "true" ELSE "false"
    /\ out' = <<Notify("onSerialConnection", 0, IF connected THEN 1 ELSE 0)>>
              \o (IF connected
                  THEN log("Kiwrious sensor connected!", "", 0, "success")
                  ELSE log("Kiwrious sensor disconnected", "", 0, "warning"))
              \o <<StatusUpdate>>
    /\ UNCHANGED itilesConnected
    /\ updateConnectionStatus
    /\ UNCHANGED <<iTilesManager, serialService, logCallbacks, dataVars, helperVars,
                   sdkGlobals, tilePc,
                   sensorPc, pairVars, discVars, tileSessions, lastTileCb>>

----------------------------------------------------------------------------
(* connectITiles(), lines 30-75.                                           *)

connectITiles ==
    /\ tilePc = "idle"
    /\ iTilesManager < MaxManagers
    /\ tilePc' = "import"
    /\ out' = <<Invoke("connectITiles")>>
              \o log("Requesting iTiles device...", "", 0, "info")
    /\ UNCHANGED <<ctrlVars, logCallbacks, dataVars, helperVars,
                   sdkGlobals, domVars, sensorPc, pairVars,
                   discVars, tileSessions, cbVars>>

\* the import resolved: lines 41-67, up to the call of requestDevice()
connectITilesImported ==
    /\ tilePc = "import"
    /\ sdkGlobals' = TRUE
    /\ iTilesManager' = iTilesManager + 1
    /\ tilePc' = "requestDevice"
    /\ out' = <<Resolved("import"),
                Call("new ITilesBLEManager", "", 0, iTilesManager'),
                Call("onConnectionStateChanged", "", 0, iTilesManager'),
                Call("requestDevice", "", 0, iTilesManager')>>
    /\ UNCHANGED <<kiwriousConnected, itilesConnected, serialService, logCallbacks, dataVars, helperVars,
                   domVars, sensorPc, pairVars, discVars, tileSessions, cbVars>>

\* requestDevice() resolved: line 68, the call of connect()
connectITilesDeviceChosen ==
    /\ tilePc = "requestDevice"
    /\ tilePc' = "connect"
    /\ out' = <<Resolved("requestDevice"), Call("connect", "", 0, iTilesManager)>>
    /\ UNCHANGED <<ctrlVars, logCallbacks, dataVars, helperVars,
                   sdkGlobals, domVars, sensorPc, pairVars,
                   discVars, tileSessions, cbVars>>

\* connect() resolved: line 70
connectITilesConnected ==
    /\ tilePc = "connect"
    /\ tilePc' = "idle"
    /\ tileSessions' = tileSessions \cup {iTilesManager}
    /\ out' = <<Resolved("connect"), Ev("return", "connectITiles", "iTilesManager", iTilesManager, "", 0)>>
    /\ UNCHANGED <<ctrlVars, logCallbacks, dataVars, helperVars,
                   sdkGlobals, domVars, sensorPc, pairVars,
                   discVars, cbVars>>

\* the catch block dropping the manager it failed to connect
connectITilesFailed_dropsManager(e) ==
    /\ tilePc \in {"import", "requestDevice", "connect"}
    /\ tilePc' = "idle"
    /\ iTilesManager' = 0
    /\ out' = <<Rejected(tilePc, e)>>
              \o log("iTiles connection error: ", e, 0, "error")
              \o <<Throw("connectITiles", e)>>
    /\ UNCHANGED <<kiwriousConnected, itilesConnected, serialService, logCallbacks,
                   dataVars, helperVars, sdkGlobals, domVars, sensorPc, pairVars,
                   discVars, tileSessions, cbVars>>

\* the awaited promise rejected with e: the catch block, lines 71-74
connectITilesFailed(e) ==
    /\ tilePc \in {"import", "requestDevice", "connect"}
    /\ tilePc' = "idle"
    /\ out' = <<Rejected(tilePc, e)>>
              \o log("iTiles connection error: ", e, 0, "error")
              \o <<Throw("connectITiles", e)>>
    /\ UNCHANGED <<ctrlVars, logCallbacks, dataVars, helperVars,
                   sdkGlobals, domVars, sensorPc, pairVars,
                   discVars, tileSessions, cbVars>>

----------------------------------------------------------------------------
(* connectKiwrious(), lines 78-128.                                        *)

connectKiwrious ==
    /\ sensorPc = "idle"
    /\ sensorPc' = "import"
    /\ out' = <<Invoke("connectKiwrious")>>
              \o log("Loading Kiwrious WebSerial library from CDN...", "", 0, "info")
    /\ UNCHANGED <<ctrlVars, logCallbacks, dataVars, helperVars,
                   sdkGlobals, domVars, tilePc, pairVars,
                   discVars, tileSessions, cbVars>>

\* the import resolved: lines 84-117, up to the call of connectAndReadAsync()
connectKiwriousImported ==
    /\ sensorPc = "import"
    /\ serialService' = TRUE
    /\ sensorPc' = "connectAndReadAsync"
    /\ out' = <<Resolved("import")>>
              \o log("Requesting Kiwrious sensor...", "", 0, "info")
              \o <<Call("connectAndReadAsync", "", 0, 0)>>
    /\ UNCHANGED <<kiwriousConnected, itilesConnected, iTilesManager, logCallbacks, dataVars, helperVars,
                   sdkGlobals, domVars, tilePc, pairVars, discVars, tileSessions,
                   cbVars>>

\* connectAndReadAsync() resolved: lines 119-123
connectKiwriousConnected ==
    /\ sensorPc = "connectAndReadAsync"
    /\ sensorPc' = "idle"
    /\ kiwriousConnected' = TRUE
    /\ out' = <<Resolved("connectAndReadAsync")>>
              \o log("Kiwrious sensor connected and reading!", "", 0, "success")
              \o <<StatusUpdate, Return("connectKiwrious", "serialService")>>
    /\ UNCHANGED itilesConnected
    /\ updateConnectionStatus
    /\ UNCHANGED <<iTilesManager, serialService, logCallbacks, dataVars, helperVars,
                   sdkGlobals, tilePc,
                   pairVars, discVars, tileSessions, cbVars>>

\* the awaited promise rejected with e: the catch block, lines 124-127
connectKiwriousFailed(e) ==
    /\ sensorPc \in {"import", "connectAndReadAsync"}
    /\ sensorPc' = "idle"
    /\ out' = <<Rejected(sensorPc, e)>>
              \o log("Kiwrious connection error: ", e, 0, "error")
              \o <<Throw("connectKiwrious", e)>>
    /\ UNCHANGED <<ctrlVars, logCallbacks, dataVars, helperVars,
                   sdkGlobals, domVars, tilePc, pairVars,
                   discVars, tileSessions, cbVars>>

----------------------------------------------------------------------------
(* The data and firmware hooks connectKiwrious installs on the service,    *)
(* lines 102-114, and onSensorData(callback), lines 189-191.               *)

onSerialData(decodedData) ==
    /\ serialService
    /\ currentSensorData' = decodedData
    /\ out' = <<Notify("onSerialData", 0, decodedData)>>
              \o (IF onSensorDataCallback # 0
                  THEN <<Ev("sensorData", "onSensorDataCallback", "", decodedData, "",
                            onSensorDataCallback)>>
                  ELSE <<>>)
    /\ UNCHANGED <<ctrlVars, logCallbacks, onSensorDataCallback, helperVars, sdkGlobals,
                   domVars, tilePc, sensorPc, pairVars, discVars, tileSessions, cbVars>>

onFirmwareUpdateAvailable(available) ==
    /\ serialService
    /\ out' = <<Notify("onFirmwareUpdateAvailable", 0, IF available THEN 1 ELSE 0)>>
              \o (IF available
                  THEN log("Firmware update available for Kiwrious sensor", "", 0, "warning")
                  ELSE <<>>)
    /\ UNCHANGED <<ctrlVars, logCallbacks, dataVars, helperVars, sdkGlobals, domVars,
                   tilePc, sensorPc, pairVars, discVars, tileSessions, cbVars>>

\* onSensorData keeping a subscriber that is already registered
onSensorData_keepsFirst(callback) ==
    /\ onSensorDataCallback' = IF onSensorDataCallback # 0 THEN onSensorDataCallback
                               ELSE callback
    /\ out' = <<Ev("invoke", "onSensorData", "", 0, "", callback)>>
    /\ UNCHANGED <<ctrlVars, logCallbacks, currentSensorData, helperVars, sdkGlobals,
                   domVars, tilePc, sensorPc, pairVars, discVars, tileSessions, cbVars>>

onSensorData(callback) ==
    /\ onSensorDataCallback' = callback
    /\ out' = <<Ev("invoke", "onSensorData", "", 0, "", callback)>>
    /\ UNCHANGED <<ctrlVars, logCallbacks, currentSensorData, helperVars, sdkGlobals,
                   domVars, tilePc, sensorPc, pairVars, discVars, tileSessions, cbVars>>

----------------------------------------------------------------------------
(* A call of a value-mapping helper by page code.                          *)

Returned(fn, result) ==
    IF result = ReferenceError THEN Throw(fn, result.kind) ELSE Return(fn, result.kind)

helperCalled(call, result) ==
    /\ helperCall' = call
    /\ helperResult' = result
    /\ out' = <<Invoke(call.fn), Returned(call.fn, result)>>
    /\ UNCHANGED <<ctrlVars, logCallbacks, dataVars, sdkGlobals, domVars, tilePc,
                   sensorPc, pairVars, discVars, tileSessions, cbVars>>

tempToColorCall(temp) ==
    helperCalled(HelperCall("tempToColor", <<temp>>, Undefined, Undefined, NoCall.factor),
                 tempToColor(temp))

uvToColorCall(uv) ==
    helperCalled(HelperCall("uvToColor", <<uv>>, Undefined, Undefined, NoCall.factor),
                 uvToColor(uv))

normalizeValueCall(value, min, max) ==
    helperCalled(HelperCall("normalizeValue", <<value, min, max>>, Undefined, Undefined,
                            NoCall.factor),
                 normalizeValue(value, min, max))

interpolateColorCall(color1, color2, factor) ==
    helperCalled(HelperCall("interpolateColor", <<>>, color1, color2, factor),
                 interpolateColor(color1, color2, factor))

----------------------------------------------------------------------------
(* pairChildTiles(), lines 131-186.                                        *)

NotInitialized == "iTiles manager not initialized. Connect to master tile first."
NotConnected == "Master tile not connected. Connect to iTiles first."

\* the precondition checks without the one of the connected flag
pairPrecondition_managerOnly ==
    IF iTilesManager = 0 THEN NotInitialized ELSE ""

\* the two precondition checks, lines 133-139: the message thrown, "" when both pass
pairPrecondition ==
    IF iTilesManager = 0 THEN NotInitialized
    ELSE IF ~itilesConnected THEN NotConnected
    ELSE ""

\* a device command: its name, its argument and the tile index (0 when it has none)
Cmd(name, arg, tile) == [name |-> name, arg |-> arg, tile |-> tile]

\* the commands are sent to the manager this.iTilesManager names when they are issued
Issue(c) == Call(c.name, c.arg, c.tile, iTilesManager)

\* a catch block that throws an error of its own in place of the one caught
pairCatch_wraps(e) ==
    log("Child tile pairing error: ", e, 0, "error")
    \o <<Throw("pairChildTiles", "Pairing failed")>>

\* the catch block, lines 182-185
pairCatch(e) ==
    log("Child tile pairing error: ", e, 0, "error") \o <<Throw("pairChildTiles", e)>>

\* the call itself: lines 132-147, up to the first await
pairChildTiles ==
    /\ pairPc = "idle"
    /\ IF pairPrecondition # ""
       THEN /\ out' = <<Invoke("pairChildTiles")>> \o pairCatch(pairPrecondition)
            /\ pairCmds' = <<>>
            /\ UNCHANGED pairPc
       ELSE /\ out' = <<Invoke("pairChildTiles")>>
                      \o log("Starting automatic tile discovery and pairing...", "", 0, "info")
                      \o log("This will take approximately 20-25 seconds", "", 0, "warning")
                      \o log("Make sure all standard tiles are powered on and nearby!", "", 0, "warning")
                      \o log("Step 1: Discovering online tiles...", "", 0, "info")
                      \o <<Issue(Cmd("queryOnlineTiles", "ALL", 0))>>
            /\ pairCmds' = <<Cmd("queryOnlineTiles", "ALL", 0)>>
            /\ pairPc' = "queryOnlineTiles"
    /\ pairResolved' = 0
    /\ pairI' = 0
    /\ countdown' = 0
    /\ intervalActive' = FALSE
    /\ ticks' = 0
    /\ elapsed' = 0
    /\ UNCHANGED <<ctrlVars, logCallbacks, dataVars, helperVars,
                   sdkGlobals, domVars, tilePc, sensorPc,
                   discVars, tileSessions, cbVars>>

\* queryOnlineTiles resolved: lines 150-158, both timers are set
pairTilesQueried ==
    /\ pairPc = "queryOnlineTiles"
    /\ pairPc' = "wait"
    /\ countdown' = CountdownStart
    /\ intervalActive' = TRUE
    /\ ticks' = 0
    /\ elapsed' = 0
    /\ pairResolved' = pairResolved + 1
    /\ out' = <<Resolved("queryOnlineTiles")>>
              \o log("Step 2: Waiting for tiles to pair (20 seconds)...", "", 0, "info")
    /\ UNCHANGED <<ctrlVars, logCallbacks, dataVars, helperVars,
                   sdkGlobals, domVars, tilePc, sensorPc,
                   pairI, pairCmds, discVars, tileSessions, cbVars>>

\* the interval's callback, lines 152-156: its k-th run is due k * TickMs after the
\* timers were set, and runs only if the timeout, due at WaitMs, is not due earlier
countdownTick ==
    /\ pairPc = "wait"
    /\ intervalActive
    /\ (ticks + 1) * TickMs <= WaitMs
    /\ ticks' = ticks + 1
    /\ elapsed' = (ticks + 1) * TickMs
    /\ countdown' = countdown - 1
    /\ intervalActive' = ~(countdown' < 0)
    /\ out' = <<Ev("timer", "interval", "", TickMs, "", 0)>>
              \o log(" seconds remaining...", "", countdown, "info")
    /\ UNCHANGED <<ctrlVars, logCallbacks, dataVars, helperVars,
                   sdkGlobals, domVars, tilePc, sensorPc,
                   pairPc, pairI, pairCmds, pairResolved, discVars, tileSessions,
                   cbVars>>

\* the timeout's continuation checking the connected flag again before step 3 and
\* giving up when it is false
pairWaitElapsed_rechecks ==
    /\ pairPc = "wait"
    /\ intervalActive => (ticks + 1) * TickMs >= WaitMs
    /\ elapsed' = WaitMs
    /\ intervalActive' = FALSE
    /\ IF itilesConnected
       THEN /\ pairPc' = "confirmAssignment"
            /\ pairCmds' = Append(pairCmds, Cmd("confirmAssignment", "ALL", 0))
            /\ out' = <<Timer(WaitMs)>>
                      \o log("Step 3: Confirming tile assignments...", "", 0, "info")
                      \o <<Issue(Cmd("confirmAssignment", "ALL", 0))>>
       ELSE /\ pairPc' = "idle"
            /\ out' = <<Timer(WaitMs)>> \o pairCatch(NotConnected)
            /\ UNCHANGED pairCmds
    /\ UNCHANGED <<ctrlVars, logCallbacks, dataVars, helperVars,
                   sdkGlobals, domVars, tilePc, sensorPc,
                   pairI, countdown, ticks, pairResolved, discVars, tileSessions,
                   cbVars>>

\* the timeout fired: lines 159-163; it is due at WaitMs, so every run of the
\* interval due earlier has happened, and one due at the same time may or may not have
pairWaitElapsed ==
    /\ pairPc = "wait"
    /\ intervalActive => (ticks + 1) * TickMs >= WaitMs
    /\ elapsed' = WaitMs
    /\ intervalActive' = FALSE
    /\ pairPc' = "confirmAssignment"
    /\ pairCmds' = Append(pairCmds, Cmd("confirmAssignment", "ALL", 0))
    /\ out' = <<Timer(WaitMs)>>
              \o log("Step 3: Confirming tile assignments...", "", 0, "info")
              \o <<Issue(Cmd("confirmAssignment", "ALL", 0))>>
    /\ UNCHANGED <<ctrlVars, logCallbacks, dataVars, helperVars,
                   sdkGlobals, domVars, tilePc, sensorPc,
                   pairI, countdown, ticks, pairResolved, discVars, tileSessions,
                   cbVars>>

\* confirmAssignment resolved: line 164, the 500 ms pause is started
pairAssignmentConfirmed ==
    /\ pairPc = "confirmAssignment"
    /\ pairPc' = "pauseConfirm"
    /\ pairResolved' = pairResolved + 1
    /\ out' = <<Resolved("confirmAssignment")>>
    /\ UNCHANGED <<ctrlVars, logCallbacks, dataVars, helperVars,
                   sdkGlobals, domVars, tilePc, sensorPc,
                   pairI, countdown, intervalActive, ticks, elapsed, pairCmds,
                   discVars, tileSessions, cbVars>>

\* the pause ended: lines 167-169, the loop is entered
pairActivate ==
    /\ pairPc = "pauseConfirm"
    /\ pairI' = FirstTile
    /\ pairPc' = "gameInProgress"
    /\ pairCmds' = Append(pairCmds, Cmd("gameInProgress", "IN_GAME", pairI'))
    /\ out' = <<Timer(500)>>
              \o log("Step 4: Activating tiles...", "", 0, "info")
              \o <<Issue(Cmd("gameInProgress", "IN_GAME", pairI'))>>
    /\ UNCHANGED <<ctrlVars, logCallbacks, dataVars, helperVars,
                   sdkGlobals, domVars, tilePc, sensorPc,
                   countdown, intervalActive, ticks, elapsed, pairResolved,
                   discVars, tileSessions, cbVars>>

\* gameInProgress resolved: line 170, the 500 ms pause is started
pairTileActivated ==
    /\ pairPc = "gameInProgress"
    /\ pairPc' = "pauseTile"
    /\ pairResolved' = pairResolved + 1
    /\ out' = <<Resolved("gameInProgress")>>
    /\ UNCHANGED <<ctrlVars, logCallbacks, dataVars, helperVars,
                   sdkGlobals, domVars, tilePc, sensorPc,
                   pairI, countdown, intervalActive, ticks, elapsed, pairCmds,
                   discVars, tileSessions, cbVars>>

\* the pause ended: i++, then the next round of the loop (line 169) or, after the
\* last one, lines 174-175
pairNextTile ==
    /\ pairPc = "pauseTile"
    /\ pairI' = pairI + 1
    /\ IF pairI' <= LastTile
       THEN /\ pairPc' = "gameInProgress"
            /\ pairCmds' = Append(pairCmds, Cmd("gameInProgress", "IN_GAME", pairI'))
            /\ out' = <<Timer(500), Issue(Cmd("gameInProgress", "IN_GAME", pairI'))>>
       ELSE /\ pairPc' = "pauseVerify"
            /\ out' = <<Timer(500)>>
                      \o log("Step 5: Verifying paired tiles...", "", 0, "info")
            /\ UNCHANGED pairCmds
    /\ UNCHANGED <<ctrlVars, logCallbacks, dataVars, helperVars,
                   sdkGlobals, domVars, tilePc, sensorPc,
                   countdown, intervalActive, ticks, elapsed, pairResolved,
                   discVars, tileSessions, cbVars>>

\* the 1 s pause ended: line 176
pairVerify ==
    /\ pairPc = "pauseVerify"
    /\ pairPc' = "queryPairedTiles"
    /\ pairCmds' = Append(pairCmds, Cmd("queryPairedTiles", "", 0))
    /\ out' = <<Timer(1000), Issue(Cmd("queryPairedTiles", "", 0))>>
    /\ UNCHANGED <<ctrlVars, logCallbacks, dataVars, helperVars,
                   sdkGlobals, domVars, tilePc, sensorPc,
                   pairI, countdown, intervalActive, ticks, elapsed, pairResolved,
                   discVars, tileSessions, cbVars>>

\* queryPairedTiles resolved: lines 178-181
pairComplete ==
    /\ pairPc = "queryPairedTiles"
    /\ pairPc' = "idle"
    /\ pairResolved' = pairResolved + 1
    /\ out' = <<Resolved("queryPairedTiles")>>
              \o log("Pairing sequence complete!", "", 0, "success")
              \o log("Check above for the list of paired tiles.", "", 0, "info")
              \o <<Return("pairChildTiles", "true")>>
    /\ UNCHANGED <<ctrlVars, logCallbacks, dataVars, helperVars,
                   sdkGlobals, domVars, tilePc, sensorPc,
                   pairI, countdown, intervalActive, ticks, elapsed, pairCmds,
                   discVars, tileSessions, cbVars>>

\* the awaited device command rejected with e: the catch block
pairFailed(e) ==
    /\ pairPc \in {"queryOnlineTiles", "confirmAssignment", "gameInProgress",
                   "queryPairedTiles"}
    /\ pairPc' = "idle"
    /\ out' = <<Rejected(pairPc, e)>> \o pairCatch(e)
    /\ UNCHANGED <<ctrlVars, logCallbacks, dataVars, helperVars,
                   sdkGlobals, domVars, tilePc, sensorPc,
                   pairI, countdown, intervalActive, ticks, elapsed, pairCmds,
                   pairResolved, discVars, tileSessions, cbVars>>

----------------------------------------------------------------------------
(* disconnect(), lines 239-250.                                            *)

\* the tile branch guarded by the handle alone
tileGuard_handleOnly == iTilesManager # 0

\* line 240
tileGuard == iTilesManager # 0 /\ itilesConnected

\* line 244
sensorGuard == serialService /\ kiwriousConnected

\* the sensor branch stopping the reading without clearing the flag
disconnectRest_keepsFlag(before) ==
    /\ UNCHANGED kiwriousConnected
    /\ out' = before
              \o (IF sensorGuard THEN <<Call("triggerStopReading", "", 0, 0)>> ELSE <<>>)
              \o <<StatusUpdate>>
              \o log("Disconnected from all devices", "", 0, "info")
              \o <<Return("disconnect", "undefined")>>
    /\ updateConnectionStatus
    /\ discPc' = "idle"

\* lines 244-249, run after `before': the sensor branch, the refresh, the entry
disconnectRest(before) ==
    /\ kiwriousConnected' = IF sensorGuard THEN FALSE ELSE kiwriousConnected
    /\ out' = before
              \o (IF sensorGuard THEN <<Call("triggerStopReading", "", 0, 0)>> ELSE <<>>)
              \o <<StatusUpdate>>
              \o log("Disconnected from all devices", "", 0, "info")
              \o <<Return("disconnect", "undefined")>>
    /\ updateConnectionStatus
    /\ discPc' = "idle"

\* the call itself: up to the await of line 241 if the tile branch is taken, else
\* to the end
disconnect ==
    /\ discPc = "idle"
    /\ IF tileGuard
       THEN /\ discPc' = "tileDisconnect"
            /\ discTarget' = iTilesManager
            /\ out' = <<Invoke("disconnect"), Call("disconnect", "", 0, iTilesManager)>>
            /\ UNCHANGED <<kiwriousConnected, itilesConnected, domVars>>
       ELSE /\ UNCHANGED <<itilesConnected, discTarget>>
            /\ disconnectRest(<<Invoke("disconnect")>>)
    /\ UNCHANGED <<iTilesManager, serialService, logCallbacks, dataVars, helperVars,
                   sdkGlobals, tilePc,
                   sensorPc, pairVars, tileSessions, cbVars>>

\* the manager's disconnect() resolved: line 242, then the rest
disconnectTileDone ==
    /\ discPc = "tileDisconnect"
    /\ itilesConnected' = FALSE
    /\ tileSessions' = tileSessions \ {discTarget}
    /\ disconnectRest(<<Resolved("disconnect")>>)
    /\ UNCHANGED <<iTilesManager, serialService, logCallbacks, dataVars, helperVars,
                   sdkGlobals, tilePc,
                   sensorPc, pairVars, discTarget, cbVars>>

\* the manager's disconnect() rejected with e: nothing catches it
disconnectTileFailed(e) ==
    /\ discPc = "tileDisconnect"
    /\ discPc' = "idle"
    /\ out' = <<Rejected("disconnect", e), Throw("disconnect", e)>>
    /\ UNCHANGED <<ctrlVars, logCallbacks, dataVars, helperVars,
                   sdkGlobals, domVars, tilePc, sensorPc,
                   pairVars, discTarget, tileSessions, cbVars>>

----------------------------------------------------------------------------
(* Specifications.  The segments of the tile side, of the sensor side and  *)
(* of the pairing script; the SDKs choose which awaited call resolves or   *)
(* rejects and which notification arrives when.                            *)

NextTile ==
    \/ \E m \in 1..MaxManagers, state \in StateCodes : onConnectionStateChanged(m, state)
    \/ connectITiles
    \/ connectITilesImported
    \/ connectITilesDeviceChosen
    \/ connectITilesConnected
    \/ \E e \in SdkErrors : connectITilesFailed(e)
    \/ disconnect
    \/ disconnectTileDone
    \/ \E e \in SdkErrors : disconnectTileFailed(e)

NextSensor ==
    \/ \E connected \in BOOLEAN : onSerialConnection(connected)
    \/ connectKiwrious
    \/ connectKiwriousImported
    \/ connectKiwriousConnected
    \/ \E e \in SdkErrors : connectKiwriousFailed(e)

NextPairing ==
    \/ pairChildTiles
    \/ pairTilesQueried
    \/ countdownTick
    \/ pairWaitElapsed
    \/ pairAssignmentConfirmed
    \/ pairActivate
    \/ pairTileActivated
    \/ pairNextTile
    \/ pairVerify
    \/ pairComplete
    \/ \E e \in SdkErrors : pairFailed(e)

(* The connection lifecycle: connectITiles, connectKiwrious and disconnect *)
(* in any interleaving with each other and with the SDKs' callbacks.       *)

Next == NextTile \/ NextSensor

Spec == Init /\ [][Next]_vars

(* The pairing script in any interleaving with the tile side: the tile     *)
(* manager's notifications, connectITiles and disconnect.                  *)

InitPair == Init /\ kiwriousDot.exists /\ itilesDot.exists

NextPair == NextTile \/ NextPairing

SpecPair == InitPair /\ [][NextPair]_vars

(* Every operation of the controller in any interleaving, on a page        *)
(* without the status elements.                                            *)

InitAll == Init /\ ~kiwriousDot.exists /\ ~itilesDot.exists

NextAll == NextTile \/ NextSensor \/ NextPairing

SpecAll == InitAll /\ [][NextAll]_vars

(* The logging fan-out: registrations and log calls by page code, and the  *)
(* sensor side as an operation that logs on its own.                       *)

NextLog ==
    \/ \E callback \in Callbacks : onLog(callback)
    \/ \E message \in Messages, type \in Types : logCall(message, type)
    \/ NextSensor

SpecLog == Init /\ [][NextLog]_vars

(* The sensor's data path: the sensor side with the hooks that deliver     *)
(* readings and firmware notices, and registrations by page code.          *)

NextData ==
    \/ \E decodedData \in Readings : onSerialData(decodedData)
    \/ \E available \in BOOLEAN : onFirmwareUpdateAvailable(available)
    \/ \E callback \in Callbacks : onSensorData(callback)
    \/ NextSensor

SpecData == Init /\ [][NextData]_vars

(* The value-mapping helpers, called by page code with any arguments at    *)
(* any time before, during and after the loading of the tile SDK.          *)

\* the colours the two mapping helpers produce
Palette ==
    {Color(0, 0, 153), Color(0, 153, 153), Color(153, 153, 0), Color(153, 77, 0),
     Color(153, 0, 0), Color(153, 153, 153), Color(153, 0, 153)}

\* colours interpolateColor is called with: the palette and the darkest greys
ColorInputs == Palette \cup {Color(c, c, c) : c \in 0..MaxChannel}

\* the loading of the tile SDK: connectITiles up to its first SDK call
NextSdkLoad ==
    \/ connectITiles
    \/ connectITilesImported
    \/ \E e \in SdkErrors : connectITilesFailed(e)

NextBuckets ==
    \/ \E temp \in Temps : tempToColorCall(temp)
    \/ \E uv \in UVs : uvToColorCall(uv)
    \/ NextSdkLoad

SpecBuckets == InitPair /\ [][NextBuckets]_vars

NextNormalize ==
    \E value \in Values, min \in Values, max \in Values : normalizeValueCall(value, min, max)

SpecNormalize == InitPair /\ [][NextNormalize]_vars

NextGradient ==
    \/ \E color1 \in ColorInputs, color2 \in ColorInputs, factor \in Factors :
          interpolateColorCall(color1, color2, factor)
    \/ NextSdkLoad

SpecGradient == InitPair /\ [][NextGradient]_vars

----------------------------------------------------------------------------
(* Reading the trace of the last segment.                                  *)

NoEvent == Ev("none", "", "", 0, "", 0)
First == IF Len(out) > 0 THEN out[1] ELSE NoEvent
Last == IF Len(out) > 0 THEN out[Len(out)] ELSE NoEvent
HasEv(e) == \E i \in 1..Len(out) : out[i] = e
HasKind(k) == \E i \in 1..Len(out) : out[i].k = k
CallsOf(name) == {i \in 1..Len(out) : out[i].k = "call" /\ out[i].a = name}
StatusUpdates == {i \in 1..Len(out) : out[i] = StatusUpdate}
IsPrefix(s, t) == Len(s) <= Len(t) /\ SubSeq(t, 1, Len(s)) = s

PairCommands == {"queryOnlineTiles", "confirmAssignment", "gameInProgress",
                 "queryPairedTiles"}

\* the script of a pairing that succeeds, as the specification gives it
PairScript ==
    <<Cmd("queryOnlineTiles", "ALL", 0),
      Cmd("confirmAssignment", "ALL", 0),
      Cmd("gameInProgress", "IN_GAME", 1),
      Cmd("gameInProgress", "IN_GAME", 2),
      Cmd("gameInProgress", "IN_GAME", 3),
      Cmd("gameInProgress", "IN_GAME", 4),
      Cmd("gameInProgress", "IN_GAME", 5),
      Cmd("gameInProgress", "IN_GAME", 6),
      Cmd("queryPairedTiles", "", 0)>>

----------------------------------------------------------------------------
(* C1: pairChildTiles() called while iTilesManager is null, or while it is *)
(* set but itilesConnected is false, rejects with an error and issues no   *)
(* device command: the segment of the call holds no SDK call, it ends by   *)
(* throwing, and the invocation is over with no command on its record.     *)

C1_PairFailsFast ==
    (First = Invoke("pairChildTiles") /\ (iTilesManager = 0 \/ ~itilesConnected))
    => /\ ~HasKind("call")
       /\ pairCmds = <<>>
       /\ Last.k = "throw" /\ Last.a = "pairChildTiles"
       /\ Last.d = (IF iTilesManager = 0 THEN NotInitialized ELSE NotConnected)
       /\ ~HasKind("return")
       /\ pairPc = "idle"

C1_Witness ==
    /\ First = Invoke("pairChildTiles")
    /\ iTilesManager # 0
    /\ ~itilesConnected
    /\ Last = Throw("pairChildTiles", NotConnected)

(* C2: an invocation of pairChildTiles() that returns true has issued      *)
(* exactly queryOnlineTiles(ALL), confirmAssignment(ALL), gameInProgress   *)
(* (IN_GAME, i) for i = 1..6 in ascending order and queryPairedTiles, each *)
(* once and in this order; at no moment is a command issued while an       *)
(* earlier one of the invocation is unresolved; and confirmAssignment is   *)
(* issued only once the 20 seconds of the wait have elapsed.               *)

C2_PairScriptInOrder ==
    /\ HasEv(Return("pairChildTiles", "true"))
       => pairCmds = PairScript /\ pairResolved = Len(PairScript)
    /\ Len(pairCmds) <= pairResolved + 1
    /\ IsPrefix(pairCmds, PairScript)
    /\ (\E i \in 1..Len(pairCmds) : pairCmds[i].name = "confirmAssignment")
       => elapsed >= 20 * 1000
    /\ \A i \in CallsOf("confirmAssignment") : i > 1 /\ out[1] = Timer(20 * 1000)

C2_Witness ==
    /\ HasEv(Return("pairChildTiles", "true"))
    /\ Len(pairCmds) = 9
    /\ pairCmds[8] = Cmd("gameInProgress", "IN_GAME", 6)

(* C3: when a device command issued by pairChildTiles() rejects, the       *)
(* segment that handles the rejection issues no command at all (no later   *)
(* one of the script, no compensating one), does not return, throws the    *)
(* very error the command rejected with, and ends the invocation with the  *)
(* rejected command as the last one issued.                                *)

C3_PairAbortsOnReject ==
    (First.k = "rejected" /\ First.a \in PairCommands)
    => /\ ~HasKind("call")
       /\ ~HasKind("return")
       /\ Last = Throw("pairChildTiles", First.d)
       /\ pairPc = "idle"
       /\ pairCmds # <<>>
       /\ pairCmds[Len(pairCmds)].name = First.a
       /\ Len(pairCmds) = pairResolved + 1
       /\ IsPrefix(pairCmds, PairScript)

C3_Witness ==
    /\ First.k = "rejected"
    /\ First.a = "gameInProgress"
    /\ pairI = 3
    /\ Len(pairCmds) = 5
    /\ Last.k = "throw"

(* C4: a call log(message, type) made while N subscribers are registered,  *)
(* by page code or by an operation of the controller, invokes the N        *)
(* subscribers once each, in the order of registration, each with an entry *)
(* carrying the message and the type of the call; and the list of          *)
(* subscribers only ever grows at its end.                                 *)

C4_LogStep ==
    LET N == Len(logCallbacks)
        entries == {j \in 1..Len(out) : out[j].k = "console"}
        handed == {j \in 1..Len(out) : out[j].k = "callback"}
    IN  /\ \A j \in entries :
            /\ j > N
            /\ \A i \in 1..N :
                 out[j - N - 1 + i] =
                     Ev("callback", out[j].a, out[j].d, out[j].n, out[j].t, logCallbacks[i])
        /\ Cardinality(handed) = N * Cardinality(entries)
        /\ (First.k = "invoke" /\ First.a = "log")
           => /\ Len(out) = N + 2
              /\ Last = Ev("console", First.d, "", 0, First.t, 0)

C4_LogFanOut == [][C4_LogStep' /\ IsPrefix(logCallbacks, logCallbacks')]_vars

C4_Witness ==
    /\ First.k = "invoke" /\ First.a = "log"
    /\ Len(logCallbacks) = 2
    /\ logCallbacks[1] # logCallbacks[2]
    /\ out[2].to = logCallbacks[1]
    /\ out[3].to = logCallbacks[2]

(* C5: a connection-state notification with state 2 leaves itilesConnected *)
(* true, one with state 0 leaves it false, and each of the two refreshes   *)
(* the status exactly once; a notification with any other state changes    *)
(* no flag, logs nothing and refreshes nothing.                            *)

IsStateNotification(ev) == ev.k = "notify" /\ ev.a = "onConnectionStateChanged"

C5_NotifiedState ==
    IsStateNotification(First)
    => /\ First.n = 2 => itilesConnected /\ Cardinality(StatusUpdates) = 1
       /\ First.n = 0 => ~itilesConnected /\ Cardinality(StatusUpdates) = 1
       /\ First.n \in {0, 2} => HasKind("console")
       /\ First.n \notin {0, 2} => Len(out) = 1

C5_OtherStateIgnored ==
    (IsStateNotification(out'[1]) /\ out'[1].n \notin {0, 2})
    => UNCHANGED <<kiwriousConnected, itilesConnected, kiwriousDot, itilesDot>>

C5_ConnectionStates == [][C5_NotifiedState' /\ C5_OtherStateIgnored]_vars

C5_Witness ==
    /\ IsStateNotification(First)
    /\ First.n = 0
    /\ lastTileCb = "false"
    /\ ~itilesConnected
    /\ itilesDot = Element("status-dot")
    /\ tileSessions # {}

(* C6: each connection flag equals the value carried by the last           *)
(* connection callback received from its session (false before any): no   *)
(* operation of the controller writes a flag on its own.                   *)

C6_FlagsFollowCallbacks ==
    /\ itilesConnected = (lastTileCb = "true")
    /\ kiwriousConnected = (lastSerialCb = "true")

(* C7: a controller never has two tile managers of its own that are both   *)
(* connected.  Every manager built holds its state listener for good, so   *)
(* two connected managers can also both change itilesConnected.            *)

C7_OneTileSession ==
    \A m1, m2 \in 1..iTilesManager :
        (m1 \in tileSessions /\ m2 \in tileSessions) => m1 = m2

(* C8: disconnect() calls the tile manager's disconnect exactly when       *)
(* iTilesManager is set and itilesConnected is true at the call, and       *)
(* triggerStopReading exactly when serialService is set and                *)
(* kiwriousConnected is true when that branch is reached; a subsystem      *)
(* whose guard is false gets no teardown call and keeps its flag, one that *)
(* was torn down has its flag false afterwards; no other segment issues a  *)
(* teardown call.                                                          *)

C8_DisconnectStep ==
    LET o == out'
        starts == Len(o) > 0 /\ o[1] = Invoke("disconnect")
        resumes == Len(o) > 0 /\ o[1] = Resolved("disconnect")
        finishes == \E i \in 1..Len(o) : o[i] = Return("disconnect", "undefined")
        tileCalls == {i \in 1..Len(o) : o[i].k = "call" /\ o[i].a = "disconnect"}
        stopCalls == {i \in 1..Len(o) : o[i].k = "call" /\ o[i].a = "triggerStopReading"}
    IN  /\ starts =>
            /\ (tileCalls # {}) <=> (iTilesManager # 0 /\ itilesConnected)
            /\ \A i \in tileCalls : o[i].to = iTilesManager
            /\ Cardinality(tileCalls) <= 1
            /\ itilesConnected' = itilesConnected
            /\ finishes <=> (tileCalls = {})
        /\ resumes => tileCalls = {} /\ ~itilesConnected' /\ finishes
        /\ finishes =>
            /\ (stopCalls # {}) <=> (serialService /\ kiwriousConnected)
            /\ Cardinality(stopCalls) <= 1
            /\ kiwriousConnected' = (IF stopCalls # {} THEN FALSE ELSE kiwriousConnected)
        /\ ~finishes => stopCalls = {}
        /\ ~starts => tileCalls = {}

C8_GuardedTeardown == [][C8_DisconnectStep]_vars

C8_Witness ==
    /\ First = Resolved("disconnect")
    /\ CallsOf("triggerStopReading") # {}
    /\ ~itilesConnected
    /\ ~kiwriousConnected
    /\ serialService
    /\ lastSerialCb = "true"

(* C9: when the tile manager's disconnect rejects while both sessions are  *)
(* connected, disconnect() still stops the sensor session, still refreshes *)
(* the status, still logs 'Disconnected from all devices', and does not    *)
(* reject.                                                                 *)

C9_RejectedTeardownStep ==
    LET o == out'
    IN  (/\ Len(o) > 0
         /\ o[1].k = "rejected" /\ o[1].a = "disconnect"
         /\ itilesConnected
         /\ serialService /\ kiwriousConnected)
        => /\ \E i \in 1..Len(o) : o[i].k = "call" /\ o[i].a = "triggerStopReading"
           /\ ~kiwriousConnected'
           /\ \E i \in 1..Len(o) : o[i] = StatusUpdate
           /\ \E i \in 1..Len(o) :
                o[i] = Ev("console", "Disconnected from all devices", "", 0, "info", 0)
           /\ \A i \in 1..Len(o) : o[i].k # "throw"

C9_DisconnectBestEffort == [][C9_RejectedTeardownStep]_vars

(* C10: whenever a public async operation fails, an entry of type 'error'  *)
(* carrying the error's message is logged before the error is thrown to    *)
(* the caller, and a rejected SDK call ends in a throw of that same error.  *)

C10_FailuresLoggedThenThrown ==
    /\ \A i \in 1..Len(out) :
         out[i].k = "throw"
         => \E j \in 1..(i - 1) :
               out[j].k = "console" /\ out[j].t = "error" /\ out[j].d = out[i].d
    /\ First.k = "rejected" => Last.k = "throw" /\ Last.d = First.d

(* C11: once pairChildTiles() has passed its precondition checks, only the *)
(* end of the script or a rejected device command ends the invocation: a   *)
(* segment of the tile side (a notification, disconnect, connectITiles)    *)
(* changes nothing of the invocation, whatever it does to itilesConnected, *)
(* and the next step of the script stays possible; so the commands issued  *)
(* are the script's also when the flag has become false on the way.        *)

\* the steps that carry the script on: its timers firing, its commands resolving
PairContinues ==
    \/ pairTilesQueried
    \/ countdownTick
    \/ pairWaitElapsed
    \/ pairAssignmentConfirmed
    \/ pairActivate
    \/ pairTileActivated
    \/ pairNextTile
    \/ pairVerify
    \/ pairComplete

IsPairTrigger(ev) ==
    \/ ev.k = "timer"
    \/ ev.k \in {"resolved", "rejected"} /\ ev.a \in PairCommands

C11_PairStep ==
    pairPc # "idle"
    => /\ pairPc' = "idle"
          => \/ out'[1] = Resolved("queryPairedTiles")
             \/ out'[1].k = "rejected" /\ out'[1].a \in PairCommands
       /\ ~IsPairTrigger(out'[1]) => UNCHANGED pairVars
       /\ Len(pairCmds') > Len(pairCmds)
          => /\ IsPrefix(pairCmds', PairScript)
             /\ \E i \in 1..Len(out') :
                  out'[i] = Call(PairScript[Len(pairCmds')].name,
                                 PairScript[Len(pairCmds')].arg,
                                 PairScript[Len(pairCmds')].tile, iTilesManager)

C11_PairNotAbortable ==
    /\ [](pairPc # "idle" => ENABLED PairContinues)
    /\ [][C11_PairStep]_vars

C11_Witness ==
    /\ HasEv(Return("pairChildTiles", "true"))
    /\ pairCmds = PairScript
    /\ ~itilesConnected
    /\ lastTileCb = "false"
    /\ tileSessions = {}
    /\ discPc = "idle"

(* C12: confirmAssignment is issued only after both the 20-second timer    *)
(* has fired and the countdown tick has finished on its own, that is, has  *)
(* counted below zero and cleared itself.                                  *)

C12_WaitAndCountdownComplete ==
    (\E i \in 1..Len(pairCmds) : pairCmds[i].name = "confirmAssignment")
    => /\ elapsed >= 20 * 1000
       /\ countdown < 0

(* C13: each decoded-data arrival stores the reading in currentSensorData  *)
(* and hands it exactly once to the subscriber most recently registered    *)
(* with onSensorData, and to nobody when none is registered; a             *)
(* registration replaces the subscriber, and nothing else changes it.      *)

IsRegistration(ev) == ev.k = "invoke" /\ ev.a = "onSensorData"

IsArrival(ev) == ev.k = "notify" /\ ev.a = "onSerialData"

C13_DataStep ==
    /\ IF IsRegistration(out'[1])
       THEN onSensorDataCallback' = out'[1].to
       ELSE onSensorDataCallback' = onSensorDataCallback
    /\ IsArrival(out'[1])
       => /\ currentSensorData' = out'[1].n
          /\ LET handed == {i \in 1..Len(out') : out'[i].k = "sensorData"}
             IN  IF onSensorDataCallback = 0
                 THEN Len(out') = 1
                 ELSE /\ Len(out') = 2
                      /\ handed = {2}
                      /\ out'[2].to = onSensorDataCallback
                      /\ out'[2].n = out'[1].n

C13_ReadingStoredAndForwarded == [][C13_DataStep]_vars

C13_Witness ==
    /\ Len(out) = 2
    /\ IsArrival(out[1])
    /\ out[1].n = 2
    /\ currentSensorData = 2
    /\ out[2].k = "sensorData"
    /\ out[2].to = 2
    /\ ~kiwriousConnected

(* C14 as claimed: updateConnectionStatus() changes nothing unless both    *)
(* status elements exist, and sets both classes from the flags when they   *)
(* do.                                                                     *)

StatusRefreshed == \E i \in 1..Len(out') : out'[i] = StatusUpdate

C14_NoOpUnlessBothExist ==
    [][StatusRefreshed
       => IF kiwriousDot.exists /\ itilesDot.exists
          THEN /\ kiwriousDot' = Element(DotClass(kiwriousConnected'))
               /\ itilesDot' = Element(DotClass(itilesConnected'))
          ELSE UNCHANGED domVars]_vars

(* C14 as the code has it: updateConnectionStatus() sets the class of each *)
(* status element that exists from its flag, whether or not the other one  *)
(* exists, and skips an absent element.                                    *)

C14_EachExistingDotSet ==
    [][StatusRefreshed
       => /\ kiwriousDot' = IF kiwriousDot.exists
                            THEN Element(DotClass(kiwriousConnected'))
                            ELSE NoElement
          /\ itilesDot' = IF itilesDot.exists
                          THEN Element(DotClass(itilesConnected'))
                          ELSE NoElement]_vars

C14_Witness ==
    /\ HasEv(StatusUpdate)
    /\ kiwriousDot = NoElement
    /\ itilesConnected
    /\ itilesDot = Element("status-dot connected")

----------------------------------------------------------------------------
(* Reading the last helper call, in the state it returned in.              *)

CalledFn(fn) == helperCall.fn = fn /\ First = Invoke(fn)

Blue == Color(0, 0, 153)
Cyan == Color(0, 153, 153)
Yellow == Color(153, 153, 0)
Orange == Color(153, 77, 0)
Red == Color(153, 0, 0)
White == Color(153, 153, 153)
Magenta == Color(153, 0, 153)

\* the bucket of a value among ascending boundaries: how many it has reached
RECURSIVE Bucket(_, _)
Bucket(x, boundaries) ==
    IF boundaries = <<>> \/ x < boundaries[1] THEN 1
    ELSE 1 + Bucket(x, Tail(boundaries))

(* C15: for every integer temperature t, tempToColor(t) returns the colour *)
(* of t's bucket among the boundaries 15/20/25/30, in the order blue,      *)
(* cyan, yellow, orange, red, which makes the bucket index non-decreasing  *)
(* in t.                                                                   *)

TempColors == <<Blue, Cyan, Yellow, Orange, Red>>

C15_TempBuckets ==
    CalledFn("tempToColor")
    => /\ helperResult = TempColors[Bucket(helperCall.args[1], <<15, 20, 25, 30>>)]
       /\ \A t \in Temps :
            t <= helperCall.args[1]
            => \E i, j \in 1..5 : /\ TempColors[i] = tempToColor(t)
                                  /\ TempColors[j] = helperResult
                                  /\ i <= j

(* C15 once the tile SDK is loaded: the same mapping, for the calls made   *)
(* when window.TileColor is set.                                           *)

C15_TempBucketsOnceLoaded == sdkGlobals => C15_TempBuckets

(* C16: for every integer uv value u, uvToColor(u) returns the colour of   *)
(* u's bucket among the boundaries 3/6/8/11, in the order white, yellow,   *)
(* orange, red, magenta; a value equal to a boundary is in the higher      *)
(* bucket.                                                                 *)

UvColors == <<White, Yellow, Orange, Red, Magenta>>

C16_UvBuckets ==
    CalledFn("uvToColor")
    => helperResult = UvColors[Bucket(helperCall.args[1], <<3, 6, 8, 11>>)]

C16_UvBucketsOnceLoaded == sdkGlobals => C16_UvBuckets

(* C17 as claimed: for all integers v, min, max, also with min = max and   *)
(* min > max, normalizeValue(v, min, max) is 0 for v below the range, 100  *)
(* for v above it, always within [0, 100], and exactly 50 when v is the    *)
(* midpoint of min and max.                                                *)

Lower(min, max) == IF min <= max THEN min ELSE max
Upper(min, max) == IF min <= max THEN max ELSE min

InUnitRange(x) == x.kind = "number" /\ 0 <= x.num /\ x.num <= 100 * x.den

NormalizeContract(value, min, max, result) ==
    /\ value < Lower(min, max) => result = Number(0, 1)
    /\ value > Upper(min, max) => result = Number(100, 1)
    /\ InUnitRange(result)
    /\ 2 * value = min + max => result = Number(50, 1)

C17_NormalizeAnyRange ==
    CalledFn("normalizeValue")
    => NormalizeContract(helperCall.args[1], helperCall.args[2], helperCall.args[3],
                         helperResult)

(* C17 as the code has it: the contract holds for min < max.  With         *)
(* min > max the scale is reversed: the result is 100 below the range and  *)
(* 0 above it, still within [0, 100] and 50 at the midpoint.  With         *)
(* min = max the result is 0 below, 100 above, and NaN for v = min.        *)

C17_NormalizeByRange ==
    CalledFn("normalizeValue")
    => LET value == helperCall.args[1]
           min == helperCall.args[2]
           max == helperCall.args[3]
       IN  /\ min < max => NormalizeContract(value, min, max, helperResult)
           /\ min > max
              => /\ value < max => helperResult = Number(100, 1)
                 /\ value > min => helperResult = Number(0, 1)
                 /\ InUnitRange(helperResult)
                 /\ 2 * value = min + max => helperResult = Number(50, 1)
           /\ min = max
              => /\ value < min => helperResult = Number(0, 1)
                 /\ value > min => helperResult = Number(100, 1)
                 /\ value = min => helperResult = NaN

(* C18: interpolateColor(c1, c2, 0) is c1 and interpolateColor(c1, c2, 1)  *)
(* is c2, channel by channel; at factor 0.5 each channel is the midpoint   *)
(* of the two channels rounded to the nearest integer, and lies between    *)
(* the two.                                                                *)

Between(x, a, b) == (a <= x /\ x <= b) \/ (b <= x /\ x <= a)

\* x is the integer nearest to (a + b) / 2
NearestToMidpoint(x, a, b) == 2 * x - 1 <= a + b /\ a + b <= 2 * x + 1

MidChannel(x, a, b) == NearestToMidpoint(x, a, b) /\ Between(x, a, b)

C18_Interpolate ==
    CalledFn("interpolateColor")
    => LET c1 == helperCall.color1
           c2 == helperCall.color2
           f == helperCall.factor
       IN  /\ helperResult.kind = "TileColor"
           /\ f = [num |-> 0, den |-> 1] => helperResult = c1
           /\ f = [num |-> 1, den |-> 1] => helperResult = c2
           /\ f = [num |-> 1, den |-> 2]
              => /\ MidChannel(helperResult.r, c1.r, c2.r)
                 /\ MidChannel(helperResult.g, c1.g, c2.g)
                 /\ MidChannel(helperResult.b, c1.b, c2.b)

C18_InterpolateOnceLoaded == sdkGlobals => C18_Interpolate

(* C19: in every reachable state a connection flag is true only if its     *)
(* session handle is set, and no step resets a handle that is set: not     *)
(* disconnect, not a failed connect, not a callback.                       *)

C19_FlagImpliesHandle ==
    /\ itilesConnected => iTilesManager # 0
    /\ kiwriousConnected => serialService

C19_HandleStep ==
    /\ iTilesManager # 0 => iTilesManager' # 0
    /\ serialService => serialService'

C19_HandlesOutliveFlags == [](C19_FlagImpliesHandle) /\ [][C19_HandleStep]_vars

C19_Witness ==
    /\ First = Resolved("disconnect")
    /\ iTilesManager = 2
    /\ serialService
    /\ ~itilesConnected
    /\ ~kiwriousConnected
    /\ HasKind("throw") = FALSE
    /\ tilePc = "idle"

(* C20: when disconnect() runs to its end, both flags are false at the     *)
(* moment it logs 'Disconnected from all devices', whatever arrived while  *)
(* it was suspended on the tile manager's disconnect().                    *)

LogsDisconnected ==
    \E i \in 1..Len(out) :
        out[i].k = "console" /\ out[i].a = "Disconnected from all devices"

C20_DisconnectedMeansBothFalse ==
    LogsDisconnected => ~itilesConnected /\ ~kiwriousConnected

C20_Witness ==
    /\ LogsDisconnected
    /\ First = Resolved("disconnect")
    /\ iTilesManager # discTarget
    /\ lastTileCb = "true"
    /\ lastSerialCb = "none"
    /\ CallsOf("triggerStopReading") # {}
    /\ ~itilesConnected
    /\ ~kiwriousConnected

====
